---- MODULE Spec2Model ----
(***************************************************************************)
(* Model of mindnlp/modules/embeddings/fasttext_embedding.py: the Fasttext *)
(* embedding (from_pretrained, construct, save, load) together with the    *)
(* text files it reads and writes.  Files are sequences of one-character   *)
(* strings, so that formatting, parsing and the seek(0) overwrite of the   *)
(* header act on characters.  Float values are counted in halves: the      *)
(* value v stands for the float32 v/2, printed "0.0", "0.5", "1.0", ...    *)
(***************************************************************************)
EXTENDS Integers, Sequences, FiniteSets, TLC

VARIABLES fs, inst, pc, idx, err, io, call, savedInst, out

vars == <<fs, inst, pc, idx, err, io, call, savedInst, out>>

\* ------------------------------------------------------------- bounds
\* The one supported dimension (dims = [300]), scaled down.
EmbedDim == 2
\* Data lines of a vector file handed to from_pretrained or put in the folder.
MaxLines == 2
\* Ids of one lookup.
MaxIds == 1

\* ---------------------------------------------------------- constants
PlaceholderWidth == 30

SP == " "
NL == "\n"
Whitespace == {SP, NL}
\* No instance: the process holds none (yet, or after a failed call).
NoHyper == [dropout |-> "", requires_grad |-> FALSE, train_state |-> FALSE]
NoInst == [vocab |-> <<>>, embed |-> <<>>, vocab_size |-> 0, embed_dim |-> 0,
           hyper |-> NoHyper]
\* The save folder before anything was saved: neither file exists.
NoFolder == [has_json |-> FALSE, json |-> NoHyper, has_txt |-> FALSE, txt |-> <<>>]

Min(S) == CHOOSE x \in S : \A y \in S : x <= y

Range(s) == {s[k] : k \in 1..Len(s)}

\* ------------------------------------------------------ text helpers
Digit == <<"0", "1", "2", "3", "4", "5", "6", "7", "8", "9">>

IsDigit(c) == \E d \in 1..10 : Digit[d] = c

DigitVal(c) == (CHOOSE d \in 1..10 : Digit[d] = c) - 1

\* f'{nums}': the decimal text of a natural number.
RECURSIVE DecStr(_)
DecStr(n) ==
    IF n < 10 THEN <<Digit[n + 1]>>
    ELSE DecStr(n \div 10) \o <<Digit[(n % 10) + 1]>>

\* A mutant of FloatStr: the value printed without its fraction.
FloatStrInt(v) == <<Digit[(v \div 2) + 1]>>

\* str(x) of one float32 element of a row: the shortest text that reads back
\* as the same float32 ("0.0", "0.5", "1.0", ...).
FloatStr(v) == <<Digit[(v \div 2) + 1], ".", IF v % 2 = 1 THEN "5" ELSE "0">>

\* ' '.join(texts)
RECURSIVE JoinSp(_)
JoinSp(ts) ==
    IF ts = <<>> THEN <<>>
    ELSE IF Len(ts) = 1 THEN ts[1]
    ELSE ts[1] \o <<SP>> \o JoinSp(Tail(ts))

\* " " * n
Spaces(n) == [k \in 1..n |-> SP]

\* Iterating a text file: the lines, each with its "\n"; a last line without
\* one is a line too, and an empty file has no line.
RECURSIVE SplitLines(_)
SplitLines(text) ==
    IF text = <<>> THEN <<>>
    ELSE LET nls == {k \in 1..Len(text) : text[k] = NL}
         IN  IF nls = {} THEN <<text>>
             ELSE <<SubSeq(text, 1, Min(nls))>>
                      \o SplitLines(SubSeq(text, Min(nls) + 1, Len(text)))

\* line.split(): the maximal runs of non-whitespace characters.
RECURSIVE Fields(_)
Fields(text) ==
    LET starts == {k \in 1..Len(text) : text[k] \notin Whitespace}
    IN  IF starts = {} THEN <<>>
        ELSE LET s == Min(starts)
                 ends == {k \in s..Len(text) : text[k] \in Whitespace}
                 e == IF ends = {} THEN Len(text) + 1 ELSE Min(ends)
             IN  <<SubSeq(text, s, e - 1)>> \o Fields(SubSeq(text, e, Len(text)))

\* line.split(maxsplit=1): no part for a blank line, one part when nothing but
\* whitespace follows the first field, else the first field and the rest of
\* the line from its next non-whitespace character on (trailing whitespace
\* kept).
SplitMax1(line) ==
    LET starts == {k \in 1..Len(line) : line[k] \notin Whitespace}
    IN  IF starts = {} THEN <<>>
        ELSE LET s == Min(starts)
                 ends == {k \in s..Len(line) : line[k] \in Whitespace}
                 e == IF ends = {} THEN Len(line) + 1 ELSE Min(ends)
                 more == {k \in e..Len(line) : line[k] \notin Whitespace}
             IN  IF more = {} THEN <<SubSeq(line, s, e - 1)>>
                 ELSE <<SubSeq(line, s, e - 1), SubSeq(line, Min(more), Len(line))>>

\* The texts np.fromstring reads as a number (of those the model prints):
\* "d", "d." and "d.0" / "d.5".
IsFloatText(f) ==
    /\ Len(f) \in 1..3
    /\ IsDigit(f[1])
    /\ Len(f) >= 2 => f[2] = "."
    /\ Len(f) = 3 => f[3] \in {"0", "5"}

FloatVal(f) == 2 * DigitVal(f[1]) + (IF Len(f) = 3 /\ f[3] = "5" THEN 1 ELSE 0)

\* np.fromstring(text, dtype=np.float32, sep=' '): the numbers read up to the
\* first field that is no number; what follows is dropped with a
\* DeprecationWarning, not an error.
RECURSIVE NumericPrefix(_)
NumericPrefix(fields) ==
    IF fields = <<>> \/ ~IsFloatText(Head(fields)) THEN <<>>
    ELSE <<FloatVal(Head(fields))>> \o NumericPrefix(Tail(fields))

FromString(text) == NumericPrefix(Fields(text))

\* file.seek(p); file.write(data): data replaces the characters at p+1.. and
\* extends the file where it runs past its end.
WriteAt(text, p, data) ==
    LET n == IF Len(text) > p + Len(data) THEN Len(text) ELSE p + Len(data)
    IN  [k \in 1..n |-> IF k > p /\ k <= p + Len(data) THEN data[k - p] ELSE text[k]]

\* ------------------------------------------------- the vector file
\* A mutant of DataLines: the first line is read as a data line too.
DataLinesAll(text) == SplitLines(text)

\* islice(file, 1, None): every line but the first.
DataLines(text) ==
    LET ls == SplitLines(text) IN IF ls = <<>> THEN <<>> ELSE Tail(ls)

\* The reading loop of from_pretrained and of load:
\*     word, embedding = line.split(maxsplit=1)
\*     tokens.append(word)
\*     embeddings.append(np.fromstring(embedding, dtype=np.float32, sep=' '))
\* A line with fewer than two parts fails the unpacking with a ValueError.
ParseVectorFile(text) ==
    LET ls == DataLines(text)
    IN  IF \E k \in 1..Len(ls) : Len(SplitMax1(ls[k])) < 2
        THEN [err |-> "ValueError", tokens |-> <<>>, embeddings |-> <<>>]
        ELSE [err |-> "ok",
              tokens |-> [k \in 1..Len(ls) |-> SplitMax1(ls[k])[1]],
              embeddings |-> [k \in 1..Len(ls) |-> FromString(SplitMax1(ls[k])[2])]]

\* --------------------------------------------------------- the vocabulary
PadToken == <<"<", "p", "a", "d", ">">>
UnkToken == <<"<", "u", "n", "k", ">">>
\* special_tokens=("<pad>", "<unk>")
DefaultSpecialTokens == <<PadToken, UnkToken>>

HasDuplicate(s) == \E j, k \in 1..Len(s) : j < k /\ s[j] = s[k]

LastIndex(s, x) == CHOOSE k \in 1..Len(s) : s[k] = x /\ \A j \in (k + 1)..Len(s) : s[j] # x

\* Vocab.from_list(word_list, special_tokens, special_first): the words get
\* consecutive ids in list order, the special tokens the ids before them
\* (special_first) or after them; a word that repeats, or that is one of the
\* special tokens, is refused with a RuntimeError.
VocabFromList(word_list, special_tokens, special_first) ==
    LET ns == Len(special_tokens)
        nw == Len(word_list)
    IN  IF \/ HasDuplicate(word_list)
           \/ Range(word_list) \cap Range(special_tokens) # {}
        THEN [err |-> "RuntimeError", vocab |-> <<>>]
        ELSE [err |-> "ok",
              vocab |-> [t \in Range(word_list) \cup Range(special_tokens) |->
                           IF t \in Range(word_list)
                           THEN LastIndex(word_list, t) - 1 + (IF special_first THEN ns ELSE 0)
                           ELSE LastIndex(special_tokens, t) - 1 + (IF special_first THEN 0 ELSE nw)]]

\* ----------------------------------------------------------- the instance
\* cls(vocab, Tensor(embeddings), True, 0.5): requires_grad, dropout, and the
\* default train_state; no extra keyword.
PretrainedHyper == [dropout |-> "0.5", requires_grad |-> TRUE, train_state |-> TRUE]

Failure(e) == [err |-> e, inst |-> NoInst]

\* np.array(embeddings).astype(np.float32), Tensor(...) and __init__:
\* rows of different lengths cannot be made a float32 matrix (ValueError); no
\* row at all gives a 1-D array, whose shape[1] does not exist (IndexError);
\* Tensor refuses a matrix with a zero dimension (ValueError).  Else
\* vocab_size = shape[0] and embed_dim = shape[1].
NewInstance(vocab, embeddings, hyper) ==
    IF \E j, k \in 1..Len(embeddings) : Len(embeddings[j]) # Len(embeddings[k])
    THEN Failure("ValueError")
    ELSE IF embeddings = <<>> THEN Failure("IndexError")
    ELSE IF Len(embeddings[1]) = 0 THEN Failure("ValueError")
    ELSE [err |-> "ok",
          inst |-> [vocab |-> vocab,
                    embed |-> embeddings,
                    vocab_size |-> Len(embeddings),
                    embed_dim |-> Len(embeddings[1]),
                    hyper |-> hyper]]

\* ------------------------------------------------------- from_pretrained
urls == {"1M", "1M-subword"}
dims == {EmbedDim}

\* np.zeros((dims,), np.float32)
Zeros(d) == [k \in 1..d |-> 0]

\* np.random.rand(dims): each element drawn from [0, 1), here 0.0 or 0.5; a
\* draw of nothing but zeros has probability zero and is left out.
RandRows(d) == {[k \in 1..d |-> IF k <= j THEN 1 ELSE 0] : j \in {d - 1, d}}

\* A mutant of IOTrace: dims is validated only after the archive was fetched.
IOTraceLateCheck(name, d, cached) ==
    IF name \notin urls THEN <<>>
    ELSE IF d \notin dims THEN <<"cache_file">>
    ELSE <<"cache_file", "exists">>
            \o (IF cached THEN <<>> ELSE <<"unzip">>) \o <<"open">>

\* What from_pretrained does to the network and the filesystem, in order:
\* nothing when name or dims is refused, else cache_file, os.path.exists,
\* unzip when the .vec file is not there yet, and open.
IOTrace(name, d, cached) ==
    IF name \notin urls THEN <<>>
    ELSE IF d \notin dims THEN <<>>
    ELSE <<"cache_file", "exists">>
            \o (IF cached THEN <<>> ELSE <<"unzip">>) \o <<"open">>

\* A mutant of FromPretrainedResult: the two rows of the special tokens are
\* not added to the table.
FromPretrainedResultNoRows(name, d, special_tokens, special_first, text, rnd) ==
    IF name \notin urls THEN Failure("ValueError")
    ELSE IF d \notin dims THEN Failure("ValueError")
    ELSE LET p == ParseVectorFile(text)
             v == VocabFromList(p.tokens, special_tokens, special_first)
         IN  IF p.err # "ok" THEN Failure(p.err)
             ELSE IF v.err # "ok" THEN Failure(v.err)
             ELSE NewInstance(v.vocab, p.embeddings, PretrainedHyper)

\* from_pretrained(name, dims, root, special_tokens, special_first) on a .vec
\* file holding text, rnd being the row np.random.rand draws.
FromPretrainedResult(name, d, special_tokens, special_first, text, rnd) ==
    IF name \notin urls THEN Failure("ValueError")
    ELSE IF d \notin dims THEN Failure("ValueError")
    ELSE LET p == ParseVectorFile(text)
             embeddings == IF special_first
                           THEN <<rnd, Zeros(d)>> \o p.embeddings
                           ELSE p.embeddings \o <<rnd, Zeros(d)>>
             v == VocabFromList(p.tokens, special_tokens, special_first)
         IN  IF p.err # "ok" THEN Failure(p.err)
             ELSE IF v.err # "ok" THEN Failure(v.err)
             ELSE NewInstance(v.vocab, embeddings, PretrainedHyper)

\* ---------------------------------------------------------------- save
\* list(vocab.keys()) of get_word_vocab(): the tokens in id order.
VocabList(vocab) ==
    LET below(t) == {u \in DOMAIN vocab : vocab[u] < vocab[t]}
    IN  [k \in 1..Cardinality(DOMAIN vocab) |->
           CHOOSE t \in DOMAIN vocab : Cardinality(below(t)) = k - 1]

\* json.dump(kwargs, file): the extra keywords with dropout, requires_grad
\* and train_state.
SavedHyper(self) == self.hyper

\* A mutant of FirstWrite: the header is written at once, padded to the width
\* of the placeholder.
FirstWriteHeader(nums, d) ==
    DecStr(nums) \o <<SP>> \o DecStr(d)
        \o Spaces(PlaceholderWidth - Len(DecStr(nums)) - 1 - Len(DecStr(d))) \o <<NL>>

\* file.write(f'{" " * 30}\n'): the placeholder line, whatever nums and dims.
FirstWrite(nums, d) == Spaces(PlaceholderWidth) \o <<NL>>

\* A mutant of DataLine: the row after the token's own is written.
DataLineNextRow(self, i) ==
    LET row == self.embed[((i + 1) % self.vocab_size) + 1]
    IN  VocabList(self.vocab)[i + 1] \o <<SP>>
            \o JoinSp([k \in 1..Len(row) |-> FloatStr(row[k])]) \o <<NL>>

\* f'{vocab_write} {vec_write}\n' for i in range(0, nums).
DataLine(self, i) ==
    LET row == self.embed[i + 1]
    IN  VocabList(self.vocab)[i + 1] \o <<SP>>
            \o JoinSp([k \in 1..Len(row) |-> FloatStr(row[k])]) \o <<NL>>

\* A mutant of HeaderText: the header ends its own line.
HeaderTextLine(self) ==
    DecStr(self.vocab_size) \o <<SP>> \o DecStr(self.embed_dim) \o <<NL>>

\* f'{nums} {dims}'
HeaderText(self) == DecStr(self.vocab_size) \o <<SP>> \o DecStr(self.embed_dim)

\* ---------------------------------------------------------------- load
\* load(foldername): both files must exist (assert); the vocabulary is
\* Vocab.from_list(tokens), with no special token, and the instance is
\* cls(vocab, Tensor(embeddings), **hyper).
LoadResult(folder) ==
    IF ~folder.has_json \/ ~folder.has_txt THEN Failure("AssertionError")
    ELSE LET p == ParseVectorFile(folder.txt)
             v == VocabFromList(p.tokens, <<>>, TRUE)
         IN  IF p.err # "ok" THEN Failure(p.err)
             ELSE IF v.err # "ok" THEN Failure(v.err)
             ELSE NewInstance(v.vocab, p.embeddings, folder.json)

\* ----------------------------------------------------------- construct
\* What ops.gather gives for an id outside [0, vocab_size): the code checks
\* nothing itself, and the operator's result there is an error on one backend
\* and undefined (a filler row) on another.
OutOfRangeOutcomes == {"raise", "fill"}

InRange(self, id) == id >= 0 /\ id < self.vocab_size

\* construct(ids): the rows gathered for the flattened ids (before dropout).
ConstructResult(self, ids, oob) ==
    IF oob = "raise" /\ \E k \in 1..Len(ids) : ~InRange(self, ids[k])
    THEN [ids |-> ids, err |-> "IndexError", rows |-> <<>>]
    ELSE [ids |-> ids, err |-> "ok",
          rows |-> [k \in 1..Len(ids) |->
                      IF InRange(self, ids[k]) THEN self.embed[ids[k] + 1]
                      ELSE Zeros(self.embed_dim)]]

\* ------------------------------------------------------------ inputs
TokA == <<"a">>
TokB == <<"b">>
Junk == <<"x">>

RowA(d) == [k \in 1..d |-> (k % 2) + 1]
RowB(d) == [k \in 1..d |-> ((k + 1) % 2) + 1]

FloatStrs(row) == [k \in 1..Len(row) |-> FloatStr(row[k])]

\* One line of a vector file: its fields joined by single spaces.
LineText(parts) == JoinSp(parts) \o <<NL>>

GoodLines(d) ==
    {LineText(<<TokA>> \o FloatStrs(RowA(d))),
     LineText(<<TokB>> \o FloatStrs(RowB(d))),
     LineText(<<PadToken>> \o FloatStrs(RowA(d)))}

BlankLine == <<NL>>
NoSplitLine == LineText(<<TokA>>)
ShortLine(d) == LineText(<<TokA>> \o FloatStrs(RowA(d - 1)))
LongLine(d) == LineText(<<TokA>> \o FloatStrs(RowA(d + 1)))
JunkMidLine(d) == LineText(<<TokA>> \o FloatStrs(RowA(d - 1)) \o <<Junk>>)
JunkEndLine(d) == LineText(<<TokA>> \o FloatStrs(RowA(d)) \o <<Junk>>)

BadLines(d) ==
    {BlankLine, NoSplitLine, ShortLine(d), LongLine(d), JunkMidLine(d), JunkEndLine(d)}

SeqsUpTo(S, n) == UNION {[1..k -> S] : k \in 0..n}

RECURSIVE Concat(_)
Concat(ts) == IF ts = <<>> THEN <<>> ELSE Head(ts) \o Concat(Tail(ts))

\* The .vec files from_pretrained is run on: a "<count> <dim>" line and up to
\* MaxLines data lines, well-formed or not.
PretrainedTexts ==
    {LineText(<<DecStr(Len(ls)), DecStr(EmbedDim)>>) \o Concat(ls) :
        ls \in SeqsUpTo(GoodLines(EmbedDim) \cup BadLines(EmbedDim), MaxLines)}

\* The first lines a fasttext.txt put into the save folder from outside may
\* have: the true header, the placeholder, a header that disagrees.
FirstLines(n) ==
    {LineText(<<DecStr(n), DecStr(EmbedDim)>>),
     Spaces(PlaceholderWidth) \o <<NL>>,
     LineText(<<DecStr(9), DecStr(9)>>)}

FolderTexts ==
    UNION {{first \o Concat(ls) : first \in FirstLines(Len(ls))} :
        ls \in SeqsUpTo(GoodLines(EmbedDim)
                          \cup {BlankLine, ShortLine(EmbedDim), JunkEndLine(EmbedDim)},
                        MaxLines)}

\* Whether a data line is malformed for dimension d: no token/vector split, a
\* field that is no number, or a number of fields other than d.
MalformedLine(line, d) ==
    \/ Len(SplitMax1(line)) < 2
    \/ LET fields == Fields(SplitMax1(line)[2])
       IN  Len(fields) # d \/ \E k \in 1..Len(fields) : ~IsFloatText(fields[k])

AnyMalformed(text, d) ==
    \E k \in 1..Len(DataLines(text)) : MalformedLine(DataLines(text)[k], d)

\* Every call of from_pretrained the model makes, with its result.
FromPretrainedCalls ==
    {[valid |-> name \in urls /\ d \in dims,
      special_first |-> sf /\ name \in urls /\ d \in dims,
      rnd |-> IF name \in urls /\ d \in dims THEN rnd ELSE <<>>,
      malformed |-> AnyMalformed(text, d),
      io |-> IOTrace(name, d, cached),
      res |-> FromPretrainedResult(name, d, DefaultSpecialTokens, sf, text, rnd)] :
        name \in urls \cup {"2M"}, d \in {EmbedDim, EmbedDim + 1}, sf \in BOOLEAN,
        cached \in BOOLEAN, text \in PretrainedTexts, rnd \in RandRows(EmbedDim)}

\* ------------------------------------------------------------- actions
NoCall == [op |-> "none", valid |-> TRUE, special_first |-> FALSE,
           rnd |-> <<>>, malformed |-> FALSE]

Called(op) == [NoCall EXCEPT !.op = op]

NoOut == [ids |-> <<>>, err |-> "ok", rows |-> <<>>]

Init ==
    /\ fs = NoFolder
    /\ inst = NoInst
    /\ pc = "idle"
    /\ idx = 0
    /\ err = "ok"
    /\ io = <<>>
    /\ call = NoCall
    /\ savedInst = NoInst
    /\ out = NoOut

\* A process builds its embedding with from_pretrained.
FromPretrained ==
    /\ pc = "idle"
    /\ inst = NoInst
    /\ \E c \in FromPretrainedCalls :
          /\ inst' = c.res.inst
          /\ err' = c.res.err
          /\ io' = c.io
          /\ call' = [op |-> "from_pretrained", valid |-> c.valid,
                      special_first |-> c.special_first, rnd |-> c.rnd,
                      malformed |-> c.malformed]
    /\ UNCHANGED <<fs, pc, idx, savedInst, out>>

\* A process builds its embedding with load.
Load ==
    /\ pc = "idle"
    /\ inst = NoInst
    /\ inst' = LoadResult(fs).inst
    /\ err' = LoadResult(fs).err
    /\ call' = Called("load")
    /\ UNCHANGED <<fs, pc, idx, io, savedInst, out>>

\* save, step 1: os.makedirs and the configuration file.
SaveJson ==
    /\ pc = "idle"
    /\ inst # NoInst
    /\ fs' = [fs EXCEPT !.has_json = TRUE, !.json = SavedHyper(inst)]
    /\ pc' = "save_json"
    /\ savedInst' = NoInst
    /\ call' = Called("save")
    /\ UNCHANGED <<inst, idx, err, io, out>>

\* save, step 2: open(fasttext.txt, 'w') truncates the file.
SaveOpenTxt ==
    /\ pc = "save_json"
    /\ fs' = [fs EXCEPT !.has_txt = TRUE, !.txt = <<>>]
    /\ pc' = "save_open"
    /\ UNCHANGED <<inst, idx, err, io, call, savedInst, out>>

\* save, step 3: the placeholder line.
SavePlaceholder ==
    /\ pc = "save_open"
    /\ fs' = [fs EXCEPT !.txt = @ \o FirstWrite(inst.vocab_size, inst.embed_dim)]
    /\ pc' = "save_body"
    /\ idx' = 0
    /\ UNCHANGED <<inst, err, io, call, savedInst, out>>

\* save, step 4: one data line for each i in range(0, nums); vocab_list[i]
\* raises an IndexError past the vocabulary's end.
SaveLine ==
    /\ pc = "save_body"
    /\ idx < inst.vocab_size
    /\ IF idx < Cardinality(DOMAIN inst.vocab)
       THEN /\ fs' = [fs EXCEPT !.txt = @ \o DataLine(inst, idx)]
            /\ idx' = idx + 1
            /\ UNCHANGED <<pc, err>>
       ELSE /\ pc' = "idle"
            /\ err' = "IndexError"
            /\ UNCHANGED <<fs, idx>>
    /\ UNCHANGED <<inst, io, call, savedInst, out>>

\* save, step 5: file.seek(0), the header over the placeholder, and the close.
SaveHeader ==
    /\ pc = "save_body"
    /\ idx = inst.vocab_size
    /\ fs' = [fs EXCEPT !.txt = WriteAt(@, 0, HeaderText(inst))]
    /\ pc' = "idle"
    /\ err' = "ok"
    /\ savedInst' = inst
    /\ UNCHANGED <<inst, idx, io, call, out>>

\* The process dies during save.  What it wrote to fasttext.txt sits in the
\* file object's buffer until it is flushed: the file keeps all of it or none.
Crash ==
    /\ pc # "idle"
    /\ \E flushed \in BOOLEAN :
          fs' = [fs EXCEPT !.txt = IF pc = "save_json" \/ flushed THEN @ ELSE <<>>]
    /\ pc' = "idle"
    /\ inst' = NoInst
    /\ err' = "ok"
    /\ io' = <<>>
    /\ call' = Called(IF pc = "save_body" THEN "crash_in_body" ELSE "crash")
    /\ UNCHANGED <<idx, savedInst, out>>

\* The process ends; the folder stays, and the next process starts clean.
Exit ==
    /\ pc = "idle"
    /\ inst # NoInst
    /\ inst' = NoInst
    /\ err' = "ok"
    /\ io' = <<>>
    /\ call' = Called("exit")
    /\ UNCHANGED <<fs, pc, idx, savedInst, out>>

\* Before anything was saved to it, the folder is given files written
\* elsewhere.
PutFiles ==
    /\ pc = "idle"
    /\ inst = NoInst
    /\ ~fs.has_txt
    /\ \E text \in FolderTexts : fs' = [has_json |-> TRUE, json |-> PretrainedHyper,
                                        has_txt |-> TRUE, txt |-> text]
    /\ savedInst' = NoInst
    /\ err' = "ok"
    /\ io' = <<>>
    /\ call' = Called("put")
    /\ UNCHANGED <<inst, pc, idx, out>>

\* The ids of one lookup: in range, one below and one past the range.
IdArrays(self) == UNION {[1..n -> -1..self.vocab_size] : n \in 1..MaxIds}

\* construct(ids) on the process's instance.
Lookup ==
    /\ pc = "idle"
    /\ inst # NoInst
    /\ \E ids \in IdArrays(inst), oob \in OutOfRangeOutcomes :
          /\ out' = ConstructResult(inst, ids, oob)
          /\ err' = ConstructResult(inst, ids, oob).err
    /\ call' = Called("construct")
    /\ UNCHANGED <<fs, inst, pc, idx, io, savedInst>>

Next ==
    \/ FromPretrained
    \/ Load
    \/ SaveJson
    \/ SaveOpenTxt
    \/ SavePlaceholder
    \/ SaveLine
    \/ SaveHeader
    \/ Crash
    \/ Exit
    \/ PutFiles

Spec == Init /\ [][Next]_vars

\* A process that builds its embedding and looks ids up in it.
NextLookup ==
    \/ FromPretrained
    \/ Lookup
    \/ Exit

SpecLookup == Init /\ [][NextLookup]_vars

\* ------------------------------------------------------------ claims
FirstLine(text) == SplitLines(text)[1]

PlaceholderLine == Spaces(PlaceholderWidth) \o <<NL>>

IsNumberText(f) == Len(f) >= 1 /\ \A k \in 1..Len(f) : IsDigit(f[k])

\* A file has a header when its first line is two numbers.
HasHeader(text) ==
    /\ text # <<>>
    /\ Len(Fields(FirstLine(text))) = 2
    /\ \A k \in 1..2 : IsNumberText(Fields(FirstLine(text))[k])

\* C1: load after a completed save of an instance returns an instance with the
\* same vocab_size, embed_dim and table rows as the saved one.
RoundTrip ==
    (call.op = "load" /\ savedInst # NoInst) =>
        /\ err = "ok"
        /\ inst.vocab_size = savedInst.vocab_size
        /\ inst.embed_dim = savedInst.embed_dim
        /\ inst.embed = savedInst.embed

RoundTripWitness ==
    /\ call.op = "load"
    /\ savedInst # NoInst
    /\ err = "ok"
    /\ inst.vocab_size = 4
    /\ \E k \in 1..4 : inst.embed[k] # Zeros(inst.embed_dim) /\ inst.embed[k] # inst.embed[1]

\* C2: from_pretrained with a name outside urls or a dims outside the
\* supported list raises ValueError, returns no instance and has done no
\* download, unzip, existence check or open.
ValidationBeforeIO ==
    (call.op = "from_pretrained" /\ ~call.valid) =>
        /\ err = "ValueError"
        /\ io = <<>>
        /\ inst = NoInst

ValidationBeforeIOWitness ==
    /\ call.op = "from_pretrained"
    /\ ~call.valid
    /\ err = "ValueError"

\* C3: after from_pretrained the all-zero row sits at the id of "<pad>" and
\* the random row at the id of "<unk>", for both settings of special_first.
ZeroRowAtPadRandomRowAtUnk ==
    (call.op = "from_pretrained" /\ err = "ok") =>
        /\ inst.embed[inst.vocab[PadToken] + 1] = Zeros(inst.embed_dim)
        /\ inst.embed[inst.vocab[UnkToken] + 1] = call.rnd

\* C4: every instance from_pretrained or load returns has vocab_size equal to
\* the number of table rows and of vocabulary entries, the ids being a
\* bijection onto 0..vocab_size-1; a file that repeats a token or holds a
\* special token is either refused or gives such an instance.
VocabMatchesTable ==
    inst # NoInst =>
        /\ inst.vocab_size = Len(inst.embed)
        /\ inst.vocab_size = Cardinality(DOMAIN inst.vocab)
        /\ {inst.vocab[t] : t \in DOMAIN inst.vocab} = 0..(inst.vocab_size - 1)
        /\ \A k \in 1..Len(inst.embed) : Len(inst.embed[k]) = inst.embed_dim

VocabMatchesTableWitness ==
    /\ call.op = "load"
    /\ err = "ok"
    /\ inst.vocab_size >= 2
    /\ PadToken \in DOMAIN inst.vocab

HeaderOverwritesPlaceholderOnly ==
    [][(pc = "save_body" /\ pc' = "idle" /\ savedInst' # NoInst) =>
          LET header == DecStr(inst.vocab_size) \o <<SP>> \o DecStr(inst.embed_dim)
          IN  Len(header) <= PlaceholderWidth =>
                 /\ FirstLine(fs'.txt)
                       = header \o Spaces(PlaceholderWidth - Len(header)) \o <<NL>>
                 /\ Tail(SplitLines(fs'.txt)) = Tail(SplitLines(fs.txt))
                 /\ Len(fs'.txt) = Len(fs.txt)]_vars

HeaderOverwritesPlaceholderOnlyWitness ==
    /\ pc = "idle"
    /\ savedInst # NoInst
    /\ Len(SplitLines(fs.txt)) = 5
    /\ HasHeader(fs.txt)

\* The dimension a data line of a loaded file is measured against: the
\* number of fields after the token on the first data line.
LoadDim(text) ==
    IF DataLines(text) = <<>> \/ Len(SplitMax1(DataLines(text)[1])) < 2 THEN 0
    ELSE Len(Fields(SplitMax1(DataLines(text)[1])[2]))

\* C7: when a data line of the file is malformed, from_pretrained and load
\* fail and return no instance.
MalformedLineFails ==
    /\ (call.op = "from_pretrained" /\ call.valid /\ call.malformed) =>
          (err # "ok" /\ inst = NoInst)
    /\ (call.op = "load" /\ fs.has_json /\ fs.has_txt
          /\ AnyMalformed(fs.txt, LoadDim(fs.txt))) =>
          (err # "ok" /\ inst = NoInst)

\* C8: construct on ids of which one is outside 0..vocab_size-1 raises an
\* index error and returns no rows.
OutOfRangeIdRaises ==
    (call.op = "construct" /\ \E k \in 1..Len(out.ids) : ~InRange(inst, out.ids[k])) =>
        (out.err = "IndexError" /\ out.rows = <<>>)

\* C9: from the placeholder's write to the last write of save the first line
\* of fasttext.txt is the 30 spaces and the file has no header, and a crash
\* in between leaves a file without a header.
NoHeaderBeforeLastWrite ==
    /\ pc = "save_body" =>
          (FirstLine(fs.txt) = PlaceholderLine /\ ~HasHeader(fs.txt))
    /\ call.op = "crash_in_body" => ~HasHeader(fs.txt)

NoHeaderBeforeLastWriteWitness ==
    /\ call.op = "crash_in_body"
    /\ Len(SplitLines(fs.txt)) >= 3
    /\ FirstLine(fs.txt) = PlaceholderLine

\* C10: the instance load returns is made of the configuration file and of
\* the lines after the first: the k-th of them gives the token of id k-1 and
\* row k, no token is added, and a file with another first line loads alike.
LoadReadsDataLinesOnly ==
    call.op = "load" =>
        LET ls == SplitLines(fs.txt)
            blanked == [fs EXCEPT !.txt = <<NL>> \o Concat(DataLines(fs.txt))]
        IN  /\ fs.txt # <<>> =>
                  (err = LoadResult(blanked).err /\ inst = LoadResult(blanked).inst)
            /\ err = "ok" =>
                  /\ inst.vocab_size = Len(ls) - 1
                  /\ Cardinality(DOMAIN inst.vocab) = Len(ls) - 1
                  /\ inst.hyper = fs.json
                  /\ \A k \in 1..(Len(ls) - 1) :
                        /\ SplitMax1(ls[k + 1])[1] \in DOMAIN inst.vocab
                        /\ inst.vocab[SplitMax1(ls[k + 1])[1]] = k - 1
                        /\ inst.embed[k] = FromString(SplitMax1(ls[k + 1])[2])

LoadReadsDataLinesOnlyWitness ==
    /\ call.op = "load"
    /\ err = "ok"
    /\ inst.vocab_size = 2
    /\ Fields(FirstLine(fs.txt)) = <<DecStr(9), DecStr(9)>>

====
